---------------------------- MODULE Spec2Model ----------------------------
(***************************************************************************)
(* Cross-regional duplicate-invoice detection (Aptean fraud detector).     *)
(*                                                                         *)
(* Two modules are modelled:                                               *)
(*   - ApteanRegionalFraudDetector (aptean_multi_regional_fraud_detector)  *)
(*   - ApteanAIMasterSystem._multi_regional_fraud_analysis                 *)
(*                                                                         *)
(* Representation                                                          *)
(*   - A string is a sequence of one-character strings.                    *)
(*   - A float in [0, 1.5] (similarity, confidence) is a fixed-point       *)
(*     integer: One stands for 1.0.  One is chosen so that every ratio     *)
(*     2*M/T of the strings used, every weighted sum and every booster     *)
(*     product is an exact integer.                                        *)
(*   - Money is an integer number of 1/10000 USD; invoice amounts are      *)
(*     whole currency units.                                               *)
(*   - Time is an integer number of hours.                                 *)
(***************************************************************************)
EXTENDS Integers, Sequences, FiniteSets, TLC

(***************************************************************************)
(* Fixed-point scale and generic helpers                                   *)
(***************************************************************************)
One == 240 * 1000

Min(x, y) == IF x <= y THEN x ELSE y

Max(x, y) == IF x >= y THEN x ELSE y

Abs(x) == IF x < 0 THEN 0 - x ELSE x

IsPrefix(s, t) == Len(s) <= Len(t) /\ SubSeq(t, 1, Len(s)) = s

(***************************************************************************)
(* Strings: str.lower(), the `in` substring test, difflib ratio            *)
(***************************************************************************)
LowerChar(c) ==
    CASE c = "A" -> "a"
      [] c = "B" -> "b"
      [] c = "C" -> "c"
      [] c = "M" -> "m"
      [] c = "P" -> "p"
      [] c = "S" -> "s"
      [] OTHER -> c

Lower(s) == [i \in 1..Len(s) |-> LowerChar(s[i])]

(* Python `x in y` for strings: x occurs as a contiguous block of y *)
Contains(y, x) ==
    \E k \in 0..(Len(y) - Len(x)) : SubSeq(y, k + 1, k + Len(x)) = x

(* length of the longest common block starting at a[i], b[j] *)
RECURSIVE CommonLen(_, _, _, _)
CommonLen(a, b, i, j) ==
    IF i > Len(a) \/ j > Len(b) THEN 0
    ELSE IF a[i] # b[j] THEN 0
    ELSE 1 + CommonLen(a, b, i + 1, j + 1)

(* the block of a and b that starts at a[p[1]], b[p[2]] *)
block_at(a, b, p) == [i |-> p[1], j |-> p[2], k |-> CommonLen(a, b, p[1], p[2])]

(* block x is preferred to block y: longer; else earlier in a; else earlier
   in b *)
preferred(x, y) ==
    \/ x.k > y.k
    \/ /\ x.k = y.k
       /\ \/ x.i < y.i
          \/ x.i = y.i /\ x.j <= y.j

(* SequenceMatcher.find_longest_match: the longest block; of those, the one
   starting earliest in a; of those, the one starting earliest in b *)
find_longest_match(a, b) ==
    CHOOSE x \in {block_at(a, b, p) : p \in (1..Len(a)) \X (1..Len(b))} :
        \A q \in (1..Len(a)) \X (1..Len(b)) : preferred(x, block_at(a, b, q))

(* SequenceMatcher.get_matching_blocks: total size of the matching blocks *)
RECURSIVE MatchCount(_, _)

(* the size of block m plus the matches to its left and to its right *)
blocks_around(a, b, m) ==
    IF m.k = 0 THEN 0
    ELSE m.k
         + MatchCount(SubSeq(a, 1, m.i - 1), SubSeq(b, 1, m.j - 1))
         + MatchCount(SubSeq(a, m.i + m.k, Len(a)), SubSeq(b, m.j + m.k, Len(b)))

MatchCount(a, b) ==
    IF Len(a) = 0 \/ Len(b) = 0 THEN 0
    ELSE blocks_around(a, b, find_longest_match(a, b))

(* SequenceMatcher(None, a, b).ratio(): 2*M/T, and 1.0 when both are empty *)
ratio(a, b) ==
    IF Len(a) + Len(b) = 0 THEN One
    ELSE (2 * MatchCount(a, b) * One) \div (Len(a) + Len(b))

(***************************************************************************)
(* Configuration of ApteanRegionalFraudDetector.__init__                   *)
(***************************************************************************)
time_window_hours == 72

(* 0.85, 0.75, 0.99, 0.90 as fixed-point values *)
similarity_threshold == (85 * One) \div 100

alert_threshold == (75 * One) \div 100

confidence_cap == (99 * One) \div 100

(* currency_rates_to_usd, in 1/10000 USD per unit; .get(currency, 1.0) *)
currency_rate(currency) ==
    CASE currency = "USD" -> 10000
      [] currency = "EUR" -> 11800
      [] currency = "GBP" -> 12800
      [] currency = "INR" -> 120
      [] currency = "CAD" -> 7400
      [] currency = "JPY" -> 67
      [] OTHER -> 10000

(* amount * rate: an amount in 1/10000 USD *)
to_usd(invoice) == invoice.total_amount * currency_rate(invoice.currency)

(* round(x, 2): x in 1/10000 USD rounded to whole cents (half to even),
   returned in 1/10000 USD *)
round2(x) ==
    LET q == x \div 100
        r == x % 100
    IN  IF r < 50 THEN 100 * q
        ELSE IF r > 50 THEN 100 * (q + 1)
        ELSE IF q % 2 = 0 THEN 100 * q ELSE 100 * (q + 1)

(***************************************************************************)
(* Submitted invoices.  The raw invoice text is carried as its labelled    *)
(* lines (From:, Description:, PO, Delivery:) and the remaining text.      *)
(***************************************************************************)
Text(vendor, items, po, address, body) ==
    [vendor |-> vendor, items |-> items, po |-> po, address |-> address,
     body |-> body]

Data(id, region, currency, amount, text) ==
    [invoice_id |-> id, region |-> region, currency |-> currency,
     total_amount |-> amount, invoice_text |-> text]

InvoiceData ==
    { Data("I1", "Germany", "EUR", 500,
           Text(<<"m","s">>, << <<"x">> >>, <<"p","1">>, <<"a","b">>,
                <<"a","b","c">>)),
      Data("I2", "USA", "USD", 550,
           Text(<<"M","S">>, << <<"x">> >>, <<"P","1">>, <<"a","b","c","d">>,
                <<"A","b","c">>)),
      Data("I1", "UK", "GBP", 100,
           Text(<<"o","r">>, << <<"x">> >>, <<"p","1">>, <<"c","b">>,
                <<"x","y","z">>)),
      Data("I4", "USA", "USD", 550,
           Text(<<"o","r">>, << <<"y">> >>, <<"p","1">>, <<"a","b">>,
                <<"x","y","z">>)),
      Data("I5", "UK", "GBP", 100,
           Text(<<"z","z">>, << <<"x">> >>, <<"q","2">>, <<"b","a">>,
                <<"a","b","c">>)) }

(***************************************************************************)
(* Content normalizer and fingerprint extractor                            *)
(***************************************************************************)
IsDigit(c) == c \in {"0", "1", "2", "3", "4", "5", "6", "7", "8", "9"}

(* re.sub(r"\d+[,.]?\d*", "AMOUNT", ...): a run of digits becomes one
   placeholder character *)
RECURSIVE MaskAmounts(_)
MaskAmounts(s) ==
    IF s = <<>> THEN <<>>
    ELSE IF IsDigit(Head(s))
         THEN IF Len(s) > 1 /\ IsDigit(s[2]) THEN MaskAmounts(Tail(s))
              ELSE <<"#">> \o MaskAmounts(Tail(s))
         ELSE <<Head(s)>> \o MaskAmounts(Tail(s))

normalize_content_for_comparison(invoice_text) ==
    Lower(MaskAmounts(invoice_text.body))

generate_content_fingerprint(invoice_text) ==
    [vendor_name        |-> invoice_text.vendor,
     line_items         |-> invoice_text.items,
     po_reference       |-> invoice_text.po,
     delivery_address   |-> invoice_text.address,
     normalized_content |-> normalize_content_for_comparison(invoice_text)]

(* submission_timestamp is datetime.now(), here the clock in hours *)
create_regional_invoice(invoice_data, clock) ==
    [invoice_id           |-> invoice_data.invoice_id,
     region               |-> invoice_data.region,
     currency             |-> invoice_data.currency,
     total_amount         |-> invoice_data.total_amount,
     submission_timestamp |-> clock,
     fingerprint          |-> generate_content_fingerprint(invoice_data.invoice_text),
     processing_status    |-> "pending"]

(* str.lower() of a word of the keyword search *)
lower_word(word) ==
    CASE word = "Office" -> "office"
      [] word = "License" -> "license"
      [] word = "SOFTWARE" -> "software"
      [] OTHER -> word

(* the keyword alternations of lines 260 and 264, as far as the words of the
   texts below reach *)
product_keywords == { "software", "license" }

tech_keywords == { "office" }

(* re.findall(r"\b(k1|k2|...)\b", text, re.IGNORECASE) on a text given as its
   words: the words that are keywords, in text order, lower-cased (line 261) *)
RECURSIVE findall_lower(_, _)
findall_lower(vocabulary, words) ==
    IF words = <<>> THEN <<>>
    ELSE IF lower_word(Head(words)) \in vocabulary
         THEN <<lower_word(Head(words))>> \o findall_lower(vocabulary, Tail(words))
    ELSE findall_lower(vocabulary, Tail(words))

(* list(set(keywords)): the elements of the set in the iteration order of the
   hash table.  The hash of a str depends on the hash seed the interpreter
   process draws at start-up (PYTHONHASHSEED); a seed is given here as the
   order in which it lets the keywords come out. *)
RECURSIVE list_of_set(_, _)
list_of_set(keywords, hash_seed) ==
    IF hash_seed = <<>> THEN <<>>
    ELSE IF \E i \in 1..Len(keywords) : keywords[i] = Head(hash_seed)
         THEN <<Head(hash_seed)>> \o list_of_set(keywords, Tail(hash_seed))
    ELSE list_of_set(keywords, Tail(hash_seed))

extract_keywords(invoice_text, hash_seed) ==
    list_of_set(findall_lower(product_keywords, invoice_text.words)
                    \o findall_lower(tech_keywords, invoice_text.words),
                hash_seed)

(* hashlib.md5(...).hexdigest(): a function of the normalized content alone *)
md5_hexdigest(normalized_content) == <<"md5", normalized_content>>

(* the InvoiceFingerprint of lines 219-228 with all eight fields, extracted
   by an interpreter process whose hash seed is hash_seed *)
InvoiceFingerprint(invoice_text, hash_seed) ==
    [content_hash       |->
         md5_hexdigest(normalize_content_for_comparison(invoice_text)),
     vendor_name        |-> generate_content_fingerprint(invoice_text).vendor_name,
     line_items         |-> generate_content_fingerprint(invoice_text).line_items,
     amounts            |-> invoice_text.amounts,
     po_reference       |-> generate_content_fingerprint(invoice_text).po_reference,
     delivery_address   |->
         generate_content_fingerprint(invoice_text).delivery_address,
     normalized_content |->
         generate_content_fingerprint(invoice_text).normalized_content,
     extracted_keywords |-> extract_keywords(invoice_text, hash_seed)]

(***************************************************************************)
(* Similarity scorer                                                       *)
(***************************************************************************)
(* a purchase-order comparison that forgets .lower() *)
po_reference_match_cased(f1, f2) ==
    /\ f1.po_reference # <<>>
    /\ f2.po_reference # <<>>
    /\ f1.po_reference = f2.po_reference

po_reference_match(f1, f2) ==
    /\ f1.po_reference # <<>>
    /\ f2.po_reference # <<>>
    /\ Lower(f1.po_reference) = Lower(f2.po_reference)

vendor_name_match(f1, f2) ==
    /\ f1.vendor_name # <<>>
    /\ f2.vendor_name # <<>>
    /\ ratio(Lower(f1.vendor_name), Lower(f2.vendor_name)) > (8 * One) \div 10

(* invoice1's address `in` invoice2's address: one direction only *)
delivery_address_match(f1, f2) ==
    /\ f1.delivery_address # <<>>
    /\ f2.delivery_address # <<>>
    /\ Contains(Lower(f2.delivery_address), Lower(f1.delivery_address))

(* a pre-filter whose final `return False` is `return True` *)
quick_similarity_check_permissive(invoice1, invoice2) ==
    \/ po_reference_match(invoice1.fingerprint, invoice2.fingerprint)
    \/ vendor_name_match(invoice1.fingerprint, invoice2.fingerprint)
    \/ delivery_address_match(invoice1.fingerprint, invoice2.fingerprint)
    \/ TRUE

quick_similarity_check(invoice1, invoice2) ==
    \/ po_reference_match(invoice1.fingerprint, invoice2.fingerprint)
    \/ vendor_name_match(invoice1.fingerprint, invoice2.fingerprint)
    \/ delivery_address_match(invoice1.fingerprint, invoice2.fingerprint)

(* sum of the ratios of item1 against every item of items2 *)
RECURSIVE ItemRowSum(_, _)
ItemRowSum(item1, items2) ==
    IF items2 = <<>> THEN 0
    ELSE ratio(Lower(item1), Lower(Head(items2))) + ItemRowSum(item1, Tail(items2))

RECURSIVE ItemTotal(_, _)
ItemTotal(items1, items2) ==
    IF items1 = <<>> THEN 0
    ELSE ItemRowSum(Head(items1), items2) + ItemTotal(Tail(items1), items2)

compare_line_items(items1, items2) ==
    IF items1 = <<>> \/ items2 = <<>> THEN 0
    ELSE ItemTotal(items1, items2) \div (Len(items1) * Len(items2))

(* the four components of the detailed comparison *)
matching_elements(invoice1, invoice2) ==
    LET f1 == invoice1.fingerprint
        f2 == invoice2.fingerprint
    IN  [content_similarity    |-> ratio(f1.normalized_content, f2.normalized_content),
         po_reference_match    |-> IF po_reference_match(f1, f2) THEN One ELSE 0,
         address_similarity    |->
             IF f1.delivery_address # <<>> /\ f2.delivery_address # <<>>
             THEN ratio(Lower(f1.delivery_address), Lower(f2.delivery_address))
             ELSE 0,
         line_items_similarity |-> compare_line_items(f1.line_items, f2.line_items)]

(* a weighted sum divided by the sum of the weights, 1.30 *)
overall_similarity_normalized(elements) ==
    (30 * elements.content_similarity + 30 * elements.po_reference_match
     + 25 * elements.address_similarity + 45 * elements.line_items_similarity)
    \div 130

(* 0.3*content + 0.3*po + 0.25*address + 0.45*line items *)
overall_similarity(elements) ==
    (30 * elements.content_similarity + 30 * elements.po_reference_match
     + 25 * elements.address_similarity + 45 * elements.line_items_similarity)
    \div 100

(***************************************************************************)
(* Currency reconciler and timing analysis                                 *)
(***************************************************************************)
(* a variance test with <= instead of < *)
analyze_currency_relationship_inclusive(invoice1, invoice2) ==
    LET amount1_usd == to_usd(invoice1)
        amount2_usd == to_usd(invoice2)
    IN  [amount1_usd |-> amount1_usd,
         amount2_usd |-> amount2_usd,
         suspicious  |-> /\ amount1_usd > 0
                         /\ 10 * Abs(amount1_usd - amount2_usd) <= amount1_usd]

(* variance = |a1 - a2| / a1 if a1 > 0 else 1.0; suspicious = variance < 0.1 *)
analyze_currency_relationship(invoice1, invoice2) ==
    LET amount1_usd == to_usd(invoice1)
        amount2_usd == to_usd(invoice2)
    IN  [amount1_usd |-> amount1_usd,
         amount2_usd |-> amount2_usd,
         suspicious  |-> /\ amount1_usd > 0
                         /\ 10 * Abs(amount1_usd - amount2_usd) < amount1_usd]

(* a timing analysis that takes half the window *)
analyze_submission_timing_half(invoice1, invoice2) ==
    LET hours_diff == Abs(invoice1.submission_timestamp - invoice2.submission_timestamp)
    IN  [time_difference_hours |-> hours_diff,
         suspicious_timing     |-> 2 * hours_diff < time_window_hours]

analyze_submission_timing(invoice1, invoice2) ==
    LET hours_diff == Abs(invoice1.submission_timestamp - invoice2.submission_timestamp)
    IN  [time_difference_hours |-> hours_diff,
         suspicious_timing     |-> hours_diff < time_window_hours]

compare_invoices_detailed(invoice1, invoice2) ==
    [overall_similarity |-> overall_similarity(matching_elements(invoice1, invoice2)),
     matching_elements  |-> matching_elements(invoice1, invoice2),
     currency_analysis  |-> analyze_currency_relationship(invoice1, invoice2),
     temporal_analysis  |-> analyze_submission_timing(invoice1, invoice2)]

(***************************************************************************)
(* Regional registry: candidate search                                     *)
(***************************************************************************)
(* a window test that also skips an invoice exactly one window away *)
outside_time_window_strict(current_invoice, existing_invoice) ==
    Abs(current_invoice.submission_timestamp
        - existing_invoice.submission_timestamp) >= time_window_hours

(* a window test that compares whole days against the number of hours *)
outside_time_window_days(current_invoice, existing_invoice) ==
    Abs(current_invoice.submission_timestamp
        - existing_invoice.submission_timestamp) \div 24 > time_window_hours

(* line 282: `if abs(current_time - existing_time) > time_window: continue` *)
outside_time_window(current_invoice, existing_invoice) ==
    Abs(current_invoice.submission_timestamp
        - existing_invoice.submission_timestamp) > time_window_hours

(* a search loop without the region test *)
same_region_never(current_invoice, existing_invoice) == FALSE

(* line 286: `if existing_invoice.region == current_invoice.region: continue` *)
same_region(current_invoice, existing_invoice) ==
    existing_invoice.region = current_invoice.region

(* the stored invoices that are not skipped by the two `continue`s of the
   search loop, in registry order *)
RECURSIVE candidatesWithin(_, _)
candidatesWithin(current_invoice, database) ==
    IF database = <<>> THEN <<>>
    ELSE IF outside_time_window(current_invoice, Head(database))
         THEN candidatesWithin(current_invoice, Tail(database))
    ELSE IF same_region(current_invoice, Head(database))
         THEN candidatesWithin(current_invoice, Tail(database))
    ELSE <<Head(database)>> \o candidatesWithin(current_invoice, Tail(database))

(* of those, the ones that pass the pre-filter *)
RECURSIVE prefilter(_, _)
prefilter(current_invoice, candidates) ==
    IF candidates = <<>> THEN <<>>
    ELSE IF quick_similarity_check(current_invoice, Head(candidates))
         THEN <<Head(candidates)>> \o prefilter(current_invoice, Tail(candidates))
    ELSE prefilter(current_invoice, Tail(candidates))

search_cross_regional_duplicates(current_invoice, database) ==
    prefilter(current_invoice, candidatesWithin(current_invoice, database))

(***************************************************************************)
(* Evidence: dicts keyed by invoice_id (a later entry with the same id     *)
(* overwrites the earlier one), and the list of matches                    *)
(***************************************************************************)
EmptyDict == [x \in {} |-> 0]

DictPut(d, k, v) == [x \in (DOMAIN d) \cup {k} |-> IF x = k THEN v ELSE d[x]]

EmptyEvidence ==
    [matches           |-> <<>>,
     similarity_scores |-> EmptyDict,
     matching_elements |-> EmptyDict,
     currency_analysis |-> EmptyDict,
     temporal_analysis |-> EmptyDict]

exceeds_similarity_threshold(similarity) == similarity > similarity_threshold

(* lines 337-341: the match is appended and its details are stored under
   its invoice_id *)
record_match(evidence, duplicate, match_evidence) ==
    LET id == duplicate.invoice_id
    IN  [matches           |-> Append(evidence.matches, duplicate),
         similarity_scores |->
             DictPut(evidence.similarity_scores, id, match_evidence.overall_similarity),
         matching_elements |->
             DictPut(evidence.matching_elements, id, match_evidence.matching_elements),
         currency_analysis |->
             DictPut(evidence.currency_analysis, id, match_evidence.currency_analysis),
         temporal_analysis |->
             DictPut(evidence.temporal_analysis, id, match_evidence.temporal_analysis)]

(* line 336: only a comparison above the similarity threshold is recorded *)
analyze_step(evidence, duplicate, match_evidence) ==
    IF exceeds_similarity_threshold(match_evidence.overall_similarity)
    THEN record_match(evidence, duplicate, match_evidence)
    ELSE evidence

RECURSIVE analyze_loop(_, _, _)
analyze_loop(current_invoice, potential_duplicates, evidence) ==
    IF potential_duplicates = <<>> THEN evidence
    ELSE analyze_loop(current_invoice, Tail(potential_duplicates),
                      analyze_step(evidence, Head(potential_duplicates),
                                   compare_invoices_detailed(
                                       current_invoice, Head(potential_duplicates))))

analyze_content_similarity(current_invoice, potential_duplicates) ==
    analyze_loop(current_invoice, potential_duplicates, EmptyEvidence)

(***************************************************************************)
(* Confidence aggregator                                                   *)
(***************************************************************************)
DictMax(d) == CHOOSE v \in {d[k] : k \in DOMAIN d} : \A k \in DOMAIN d : d[k] <= v

(* a booster of 0.1 per further match instead of 0.2 *)
region_multiplier10_slow(n) == Min(15, 10 + (n - 1) * 1)

(* 10 * min(1.5, 1.0 + (n - 1) * 0.2) *)
region_multiplier10(n) == Min(15, 10 + (n - 1) * 2)

(* the confidence without the final min(0.99, ...) *)
cap_confidence10_missing(c10) == c10 \div 10

(* min(0.99, c) for c given in tenths of the fixed-point unit *)
cap_confidence10(c10) ==
    IF c10 >= 10 * confidence_cap THEN confidence_cap ELSE c10 \div 10

(* the ids whose currency analysis is flagged suspicious *)
suspicious_ids(evidence) ==
    {id \in DOMAIN evidence.currency_analysis :
        evidence.currency_analysis[id].suspicious}

(* the ids whose timing analysis is flagged suspicious *)
timing_ids(evidence) ==
    {id \in DOMAIN evidence.temporal_analysis :
        evidence.temporal_analysis[id].suspicious_timing}

calculate_fraud_confidence(evidence) ==
    IF evidence.matches = <<>> THEN 0
    ELSE cap_confidence10(
             DictMax(evidence.similarity_scores)
                 * region_multiplier10(Len(evidence.matches))
             + One * Cardinality(suspicious_ids(evidence))
             + (One \div 2) * Cardinality(timing_ids(evidence)))

(***************************************************************************)
(* Financial impact and alert                                              *)
(***************************************************************************)
RECURSIVE duplicate_usd(_)
duplicate_usd(duplicates) ==
    IF duplicates = <<>> THEN 0
    ELSE to_usd(Head(duplicates)) + duplicate_usd(Tail(duplicates))

calculate_potential_loss(current_invoice, duplicates) ==
    round2(duplicate_usd(duplicates))

(* tiers whose first limit is 0.95 instead of 0.90 *)
generate_action_recommendation_095(confidence_score) ==
    IF confidence_score > (95 * One) \div 100 THEN "IMMEDIATE ACTION"
    ELSE IF confidence_score > (85 * One) \div 100 THEN "HIGH PRIORITY"
    ELSE IF confidence_score > (75 * One) \div 100 THEN "ENHANCED REVIEW"
    ELSE "MONITOR"

generate_action_recommendation(confidence_score) ==
    IF confidence_score > (90 * One) \div 100 THEN "IMMEDIATE ACTION"
    ELSE IF confidence_score > (85 * One) \div 100 THEN "HIGH PRIORITY"
    ELSE IF confidence_score > (75 * One) \div 100 THEN "ENHANCED REVIEW"
    ELSE "MONITOR"

generate_fraud_alert(current_invoice, duplicates, evidence, confidence_score, potential_loss) ==
    [fraud_type         |-> "Multi-Regional Duplicate Attack",
     confidence_score   |-> confidence_score,
     affected_regions   |-> {current_invoice.region}
                              \cup {duplicates[i].region : i \in 1..Len(duplicates)},
     duplicate_invoices |-> <<current_invoice>> \o duplicates,
     potential_loss     |-> potential_loss,
     evidence_details   |-> evidence,
     recommended_action |-> generate_action_recommendation(confidence_score)]

(* an insert at the front instead of an append *)
add_to_regional_database_front(database, invoice) == <<invoice>> \o database

add_to_regional_database(database, invoice) == Append(database, invoice)

(* a gate set at 0.95 instead of 0.75 *)
exceeds_alert_threshold_high(confidence_score) ==
    confidence_score > (95 * One) \div 100

(* a gate set at 0.90 *)
exceeds_alert_threshold_090(confidence_score) ==
    confidence_score > (90 * One) \div 100

(* line 100: `if confidence_score > 0.75` *)
exceeds_alert_threshold(confidence_score) == confidence_score > alert_threshold

(* `return None` *)
NoAlert == [fraud_type |-> "None"]

(* what a call computed and returned: kind is "alert" when a FraudAlert is
   returned and "none" when None is returned *)
outcome_record(current_invoice, potential_duplicates, fraud_evidence, confidence_score, potential_loss, alerted) ==
    [kind                 |-> IF alerted THEN "alert" ELSE "none",
     current_invoice      |-> current_invoice,
     potential_duplicates |-> potential_duplicates,
     fraud_evidence       |-> fraud_evidence,
     confidence_score     |-> confidence_score,
     potential_loss       |-> potential_loss,
     alert                |->
         IF alerted
         THEN generate_fraud_alert(current_invoice, potential_duplicates,
                                   fraud_evidence, confidence_score, potential_loss)
         ELSE NoAlert]

(* steps 4-6, given the evidence *)
decide(current_invoice, potential_duplicates, fraud_evidence, confidence_score) ==
    outcome_record(current_invoice, potential_duplicates, fraud_evidence,
                   confidence_score,
                   calculate_potential_loss(current_invoice, potential_duplicates),
                   exceeds_alert_threshold(confidence_score))

(* step 3 *)
analyze_and_decide(current_invoice, potential_duplicates, fraud_evidence) ==
    decide(current_invoice, potential_duplicates, fraud_evidence,
           calculate_fraud_confidence(fraud_evidence))

(* steps 3-6 of detect_multi_regional_fraud, given the result of the search *)
detect_outcome(current_invoice, potential_duplicates) ==
    analyze_and_decide(current_invoice, potential_duplicates,
                       analyze_content_similarity(current_invoice,
                                                  potential_duplicates))

(* steps 2-6 *)
search_and_detect(current_invoice, database) ==
    detect_outcome(current_invoice,
                   search_cross_regional_duplicates(current_invoice, database))

(* steps 1-6 of detect_multi_regional_fraud(invoice_data) at time clock *)
detect_multi_regional_fraud(invoice_data, database, clock) ==
    search_and_detect(create_regional_invoice(invoice_data, clock), database)

(* step 7: the registry after the call *)
database_after(database, outcome) ==
    IF outcome.kind = "alert" THEN database
    ELSE add_to_regional_database(database, outcome.current_invoice)

(***************************************************************************)
(* Master pipeline: ApteanAIMasterSystem._multi_regional_fraud_analysis    *)
(***************************************************************************)
master_similarity_threshold == (85 * One) \div 100

master_time_window_hours == 72

(* text.lower(), then the placeholders; "A" stands for the upper-case
   placeholder AMOUNT, which is substituted after lower-casing *)
RECURSIVE MasterMaskAmounts(_)
MasterMaskAmounts(s) ==
    IF s = <<>> THEN <<>>
    ELSE IF IsDigit(Head(s))
         THEN IF Len(s) > 1 /\ IsDigit(s[2]) THEN MasterMaskAmounts(Tail(s))
              ELSE <<"A">> \o MasterMaskAmounts(Tail(s))
         ELSE <<Head(s)>> \o MasterMaskAmounts(Tail(s))

create_content_fingerprint(invoice_text) ==
    MasterMaskAmounts(Lower(invoice_text.body))

(* usd_amount of _currency_standardization_analysis *)
currency_standardization_usd(invoice_data) == round2(to_usd(invoice_data))

(* the entry of potential_duplicates for a stored record *)
master_duplicate(existing_invoice, similarity, time_diff) ==
    [invoice_id      |-> existing_invoice.invoice_id,
     region          |-> existing_invoice.region,
     similarity      |-> similarity,
     amount_usd      |-> existing_invoice.usd_amount,
     time_diff_hours |-> time_diff]

(* datetime.isoformat(): the timestamp as a str *)
isoformat(time) == [type |-> "str", isoformat |-> time]

(* a str that datetime.fromisoformat rejects *)
UnparsableTimestamp == [type |-> "str", text |-> "yesterday"]

(* lines 386-391: existing_invoice.get('timestamp', current_time); a str is
   parsed with datetime.fromisoformat, and current_time is taken when the
   parse raises; a datetime is used as it is *)
existing_time(existing_invoice, current_time) ==
    IF "timestamp" \notin DOMAIN existing_invoice THEN current_time
    ELSE IF existing_invoice.timestamp.type = "str"
         THEN IF "isoformat" \in DOMAIN existing_invoice.timestamp
              THEN existing_invoice.timestamp.isoformat
              ELSE current_time
    ELSE existing_invoice.timestamp.hour

(* a loop body whose fromisoformat is not wrapped in try/except: the
   ValueError of an unparsable str propagates *)
time_diff_raises_unguarded(existing_invoice) ==
    /\ "timestamp" \in DOMAIN existing_invoice
    /\ \/ existing_invoice.timestamp.type \notin {"str", "datetime"}
       \/ /\ existing_invoice.timestamp.type = "str"
          /\ "isoformat" \notin DOMAIN existing_invoice.timestamp

(* line 393: current_time - existing_time raises TypeError when the stored
   value is neither a str nor a datetime *)
time_diff_raises(existing_invoice) ==
    /\ "timestamp" \in DOMAIN existing_invoice
    /\ existing_invoice.timestamp.type \notin {"str", "datetime"}

(* the call raises: the loop reaches a record of another region whose time
   difference cannot be computed *)
analysis_raises(database, region) ==
    \E i \in 1..Len(database) :
        /\ database[i].region # region
        /\ time_diff_raises(database[i])

(* a similarity test against 0.75 instead of 0.85 *)
master_similar_075(similarity) == similarity > (75 * One) \div 100

(* line 401: `if similarity > self.similarity_threshold` *)
master_similar(similarity) == similarity > master_similarity_threshold

(* one iteration of the loop: the entries it adds to potential_duplicates *)
master_check(existing_invoice, region, content_fingerprint, current_time) ==
    IF existing_invoice.region = region THEN <<>>
    ELSE IF Abs(current_time - existing_time(existing_invoice, current_time))
                > master_time_window_hours
         THEN <<>>
    ELSE IF master_similar(ratio(content_fingerprint,
                                 existing_invoice.content_fingerprint))
         THEN << master_duplicate(
                     existing_invoice,
                     ratio(content_fingerprint, existing_invoice.content_fingerprint),
                     Abs(current_time
                         - existing_time(existing_invoice, current_time))) >>
    ELSE <<>>

RECURSIVE master_scan(_, _, _, _)
master_scan(database, region, content_fingerprint, current_time) ==
    IF database = <<>> THEN <<>>
    ELSE master_check(Head(database), region, content_fingerprint, current_time)
         \o master_scan(Tail(database), region, content_fingerprint, current_time)

RECURSIVE MaxSimilarity(_)
MaxSimilarity(dups) ==
    IF dups = <<>> THEN 0
    ELSE Max(Head(dups).similarity, MaxSimilarity(Tail(dups)))

RECURSIVE SumAmountUsd(_)
SumAmountUsd(dups) ==
    IF dups = <<>> THEN 0
    ELSE Head(dups).amount_usd + SumAmountUsd(Tail(dups))

fraud_result_of(potential_duplicates) ==
    [fraud_detected       |-> potential_duplicates # <<>>,
     confidence           |-> MaxSimilarity(potential_duplicates),
     potential_duplicates |-> potential_duplicates,
     potential_loss_usd   |-> SumAmountUsd(potential_duplicates),
     regions_affected     |->
         Cardinality({potential_duplicates[i].region :
                         i \in 1..Len(potential_duplicates)}) + 1]

multi_regional_fraud_analysis(database, invoice_data, current_time) ==
    fraud_result_of(
        master_scan(database, invoice_data.region,
                    create_content_fingerprint(invoice_data.invoice_text),
                    current_time))

master_record(invoice_data, usd_amount, current_time) ==
    [invoice_id          |-> invoice_data.invoice_id,
     region              |-> invoice_data.region,
     content_fingerprint |-> create_content_fingerprint(invoice_data.invoice_text),
     usd_amount          |-> usd_amount,
     timestamp           |-> isoformat(current_time)]

(* a registry that, like the detector's, is not extended by a submission it
   holds a copy of from another region *)
master_database_after_unless_duplicate(database, record) ==
    IF \E i \in 1..Len(database) :
           /\ database[i].region # record.region
           /\ database[i].content_fingerprint = record.content_fingerprint
    THEN database
    ELSE Append(database, record)

master_database_after(database, record) == Append(database, record)

(***************************************************************************)
(* Master pipeline: ApteanAIMasterSystem._make_final_decision              *)
(***************************************************************************)
(* lines 469-472 *)
geographic_factor(geographic_result) ==
    IF geographic_result.confidence > (8 * One) \div 10 THEN (2 * One) \div 10
    ELSE IF geographic_result.confidence > (5 * One) \div 10 THEN One \div 10
    ELSE 0

(* lines 475-476 *)
currency_factor(currency_result) ==
    IF currency_result.confidence > (8 * One) \div 10 THEN One \div 10 ELSE 0

(* lines 479-484 *)
vendor_factor(vendor_result) ==
    IF vendor_result.legitimacy_status = "LEGITIMATE" THEN (3 * One) \div 10
    ELSE IF vendor_result.legitimacy_status = "FRAUDULENT"
         THEN 0 - (5 * One) \div 10
    ELSE IF vendor_result.risk_level = "CRITICAL" THEN 0 - (3 * One) \div 10
    ELSE 0

(* lines 487-493 *)
fraud_factor(fraud_result) ==
    IF fraud_result.fraud_detected
    THEN IF fraud_result.confidence > (9 * One) \div 10
         THEN 0 - (4 * One) \div 10
         ELSE 0 - (2 * One) \div 10
    ELSE (2 * One) \div 10

(* lines 496-500: max(0.1, min(0.99, 0.5 + the weights)) *)
overall_confidence(base_confidence) ==
    Max(One \div 10, Min((99 * One) \div 100, base_confidence))

(* a first test of the recommendation with 0.9 instead of 0.85 *)
high_fraud_risk_090(fraud_result) ==
    fraud_result.fraud_detected /\ fraud_result.confidence > (90 * One) \div 100

(* line 503 *)
high_fraud_risk(fraud_result) ==
    fraud_result.fraud_detected /\ fraud_result.confidence > (85 * One) \div 100

(* lines 503-514; the texts are given without their leading symbol *)
recommendation_of(vendor_result, fraud_result, confidence) ==
    IF high_fraud_risk(fraud_result) THEN "BLOCK - High fraud risk detected"
    ELSE IF vendor_result.legitimacy_status = "FRAUDULENT"
         THEN "BLOCK - Fraudulent vendor detected"
    ELSE IF vendor_result.risk_level = "CRITICAL"
         THEN "MANUAL REVIEW - Critical risk requires approval"
    ELSE IF confidence > (8 * One) \div 10 THEN "APPROVE - All checks passed"
    ELSE IF confidence > (6 * One) \div 10
         THEN "ENHANCED VERIFICATION - Additional checks required"
    ELSE "INSUFFICIENT DATA - Gather more information"

final_decision_of(vendor_result, fraud_result, confidence) ==
    [recommendation |-> recommendation_of(vendor_result, fraud_result, confidence),
     confidence     |-> confidence]

make_final_decision(geographic_result, currency_result, vendor_result, fraud_result) ==
    final_decision_of(
        vendor_result, fraud_result,
        overall_confidence(One \div 2
                           + geographic_factor(geographic_result)
                           + currency_factor(currency_result)
                           + vendor_factor(vendor_result)
                           + fraud_factor(fraud_result)))

(***************************************************************************)
(* State                                                                   *)
(***************************************************************************)
VARIABLES
    cross_regional_database,  \* the detector's registry
    lastResult,               \* what the last detect_multi_regional_fraud call did
    master_database,          \* the master pipeline's cross_regional_database
    processing_stats,         \* master: total_invoices_processed
    masterResult,             \* fraud_result of the last process_invoice call
    now,                      \* datetime.now(), in hours
    calls,                    \* number of calls made so far
    pc,                       \* threads: position of each concurrent call
    local,                    \* threads: current_invoice and potential_duplicates
    pure                      \* a pure function's arguments and its result

vars == <<cross_regional_database, lastResult, master_database, processing_stats,
          masterResult, now, calls, pc, local, pure>>

detectorVars == <<cross_regional_database, lastResult>>

masterVars == <<master_database, processing_stats, masterResult>>

threadVars == <<pc, local>>

programVars == <<cross_regional_database, lastResult, master_database,
                 processing_stats, masterResult, now, calls, pc, local>>

(* bounds of the model *)
MaxCalls == 3

MaxTicks == 3

(* the clock advances by half a time window *)
TickHours == time_window_hours \div 2

Threads == {1, 2}

NoResult == [kind |-> "init"]

InitProgram ==
    /\ cross_regional_database = <<>>
    /\ lastResult = NoResult
    /\ master_database = <<>>
    /\ processing_stats = [total_invoices_processed |-> 0]
    /\ masterResult = NoResult
    /\ now = 0
    /\ calls = 0
    /\ pc = [t \in Threads |-> "idle"]
    /\ local = [t \in Threads |-> "None"]

Init ==
    /\ InitProgram
    /\ pure = [kind |-> "none"]

(***************************************************************************)
(* Actions                                                                 *)
(***************************************************************************)
(* the wall clock advances between calls *)
Tick ==
    /\ now < MaxTicks * TickHours
    /\ now' = now + TickHours
    /\ UNCHANGED <<detectorVars, masterVars, calls, threadVars, pure>>

(* detect_multi_regional_fraud(invoice_data), run to completion *)
Detect(invoice_data) ==
    /\ calls < MaxCalls
    /\ lastResult' =
           detect_multi_regional_fraud(invoice_data, cross_regional_database, now)
    /\ cross_regional_database' =
           database_after(cross_regional_database, lastResult')
    /\ calls' = calls + 1
    /\ UNCHANGED <<masterVars, now, threadVars, pure>>

(* process_invoice(invoice_data): step 4 and _update_system_stats *)
ProcessInvoice(invoice_data) ==
    /\ calls < MaxCalls
    /\ masterResult' =
           [kind         |-> "done",
            invoice_data |-> invoice_data,
            fraud_result |->
                multi_regional_fraud_analysis(master_database, invoice_data, now)]
    /\ master_database' =
           master_database_after(
               master_database,
               master_record(invoice_data,
                             currency_standardization_usd(invoice_data), now))
    /\ processing_stats' =
           [processing_stats EXCEPT !.total_invoices_processed = @ + 1]
    /\ calls' = calls + 1
    /\ UNCHANGED <<detectorVars, now, threadVars, pure>>

Next ==
    \/ Tick
    \/ \E invoice_data \in InvoiceData : Detect(invoice_data)
    \/ \E invoice_data \in InvoiceData : ProcessInvoice(invoice_data)

Spec == Init /\ [][Next]_vars

(***************************************************************************)
(* Two detect_multi_regional_fraud calls running as threads on one         *)
(* detector.  The code takes no lock: a thread can be pre-empted between   *)
(* the search of the registry (line 88) and the append (line 110).         *)
(***************************************************************************)
(* lines 85-88: build the invoice and search the registry *)
search_result(current_invoice, database) ==
    [current_invoice      |-> current_invoice,
     potential_duplicates |->
         search_cross_regional_duplicates(current_invoice, database)]

ThreadSearch(t, invoice_data) ==
    /\ pc[t] = "idle"
    /\ calls < MaxCalls
    /\ local' = [local EXCEPT ![t] =
                    search_result(create_regional_invoice(invoice_data, now),
                                  cross_regional_database)]
    /\ pc' = [pc EXCEPT ![t] = "searched"]
    /\ calls' = calls + 1
    /\ UNCHANGED <<detectorVars, masterVars, now, pure>>

(* lines 91-112: analyse, decide, return the alert or append *)
ThreadDecide(t) ==
    /\ pc[t] = "searched"
    /\ lastResult' = detect_outcome(local[t].current_invoice,
                                    local[t].potential_duplicates)
    /\ cross_regional_database' =
           database_after(cross_regional_database, lastResult')
    /\ pc' = [pc EXCEPT ![t] = "idle"]
    /\ local' = [local EXCEPT ![t] = "None"]
    /\ UNCHANGED <<masterVars, now, calls, pure>>

NextConc ==
    \/ Tick
    \/ \E t \in Threads, invoice_data \in InvoiceData : ThreadSearch(t, invoice_data)
    \/ \E t \in Threads : ThreadDecide(t)

SpecConc == Init /\ [][NextConc]_vars

(***************************************************************************)
(* The pre-filter, the confidence aggregator, the detailed comparison, the *)
(* currency analysis and the two normalizers as pure functions of          *)
(* arbitrary arguments                                                     *)
(***************************************************************************)
MaxMatches == 2

PoValues == { <<>>, <<"p","1">>, <<"P","1">>, <<"p","2">> }

VendorValues == { <<>>, <<"m","s">>, <<"o","r">> }

AddressValues == { <<>>, <<"a","b">>, <<"A","B">>, <<"a","b","c","d">>, <<"c","b">> }

Fingerprints ==
    { [vendor_name |-> v, line_items |-> <<>>, po_reference |-> p,
       delivery_address |-> a, normalized_content |-> <<>>] :
          v \in VendorValues, p \in PoValues, a \in AddressValues }

InvoiceOf(fingerprint) == [fingerprint |-> fingerprint]

SimilarityValues == { 0, One \div 2, (9 * One) \div 10, (13 * One) \div 10 }

(* one match as _compare_invoices_detailed reports it *)
MatchEntries ==
    { [invoice_id |-> id, overall_similarity |-> s, matching_elements |-> "-",
       currency_analysis |-> [suspicious |-> c],
       temporal_analysis |-> [suspicious_timing |-> t]] :
          id \in {"I1", "I2"}, s \in SimilarityValues, c \in BOOLEAN, t \in BOOLEAN }

MatchLists == UNION { [1..n -> MatchEntries] : n \in 0..MaxMatches }

(* the evidence _analyze_content_similarity builds from a list of matches *)
RECURSIVE evidence_of(_, _)
evidence_of(entries, evidence) ==
    IF entries = <<>> THEN evidence
    ELSE evidence_of(Tail(entries),
                     record_match(evidence, [invoice_id |-> Head(entries).invoice_id],
                                  Head(entries)))

(* fingerprints for the detailed comparison *)
ItemValues == { <<>>, << <<"x">> >>, << <<"x">>, <<"y">> >> }

ContentValues == { <<>>, <<"a","b","c">>, <<"a","b","d">> }

DetailFingerprints ==
    { [vendor_name |-> <<>>, line_items |-> i, po_reference |-> p,
       delivery_address |-> a, normalized_content |-> c] :
          i \in ItemValues, p \in PoValues,
          a \in { <<>>, <<"a","b">>, <<"a","b","c","d">> }, c \in ContentValues }

(* a RegionalInvoice around a fingerprint *)
DetailInvoice(region, fingerprint) ==
    [invoice_id |-> region, region |-> region, currency |-> "USD",
     total_amount |-> 100, submission_timestamp |-> 0,
     fingerprint |-> fingerprint, processing_status |-> "pending"]

(* lines 348-353: the comparison before it is filled in *)
EmptyComparison ==
    [overall_similarity |-> 0, matching_elements |-> EmptyDict,
     currency_analysis |-> EmptyDict, temporal_analysis |-> EmptyDict]

(* invoices for the currency analysis: amounts below, at and above zero, a
   pair exactly 10 % apart, and a currency that is not in the rate table *)
CurrencyValues == { "USD", "GBP", "XXX" }

AmountValues == { 0 - 100, 0, 100, 109, 110 }

MoneyInvoices ==
    { [currency |-> c, total_amount |-> a] : c \in CurrencyValues, a \in AmountValues }

(* invoice texts of at most MaxText characters *)
MaxText == 3

TextChars == { "a", "B", "1", "2" }

Texts == UNION { [1..n -> TextChars] : n \in 0..MaxText }

(* the text as the invoice_text of a submission *)
TextOf(body) == Text(<<>>, <<>>, <<>>, <<>>, body)

(* raw texts for the extraction: the labelled lines, the amounts that carry
   a currency symbol or code, and the words of the text *)
MaxWords == 2

WordValues == { "SOFTWARE", "License", "Office", "x" }

WordLists == UNION { [1..n -> WordValues] : n \in 0..MaxWords }

RawTexts ==
    { [vendor |-> <<"m","s">>, items |-> << <<"x">> >>, po |-> <<"p","1">>,
       address |-> <<"a","b">>, body |-> body, amounts |-> <<500>>,
       words |-> words] :
          body \in { <<"a","1">>, <<"A","b">> }, words \in WordLists }

(* the iteration orders of the keywords under the hash seeds of three
   interpreter processes *)
HashSeeds ==
    { <<"software", "license", "office">>,
      <<"office", "software", "license">>,
      <<"license", "office", "software">> }

(* records of the master pipeline's database as a caller can have loaded
   them: the timestamp key absent, a str that does not parse, the isoformat
   str and the datetime of hour 0, and None *)
MaxStored == 2

TimestampKinds == { "absent", "unparsable", "isoformat", "datetime", "None" }

timestamp_of(kind) ==
    CASE kind = "unparsable" -> UnparsableTimestamp
      [] kind = "isoformat" -> isoformat(0)
      [] kind = "datetime" -> [type |-> "datetime", hour |-> 0]
      [] OTHER -> [type |-> "NoneType"]

StoredFingerprints == { <<"a","b","c">>, <<"a","b">>, <<"a","b","c","d">> }

stored_record(invoice_id, region, content_fingerprint, kind) ==
    IF kind = "absent"
    THEN [invoice_id |-> invoice_id, region |-> region,
          content_fingerprint |-> content_fingerprint, usd_amount |-> 5900000]
    ELSE [invoice_id |-> invoice_id, region |-> region,
          content_fingerprint |-> content_fingerprint, usd_amount |-> 5900000,
          timestamp |-> timestamp_of(kind)]

StoredChoices == {"Germany", "USA"} \X StoredFingerprints \X TimestampKinds

StoredIds == <<"R1", "R2", "R3">>

StoredDatabases(longest) ==
    UNION { { [i \in 1..n |->
                  stored_record(StoredIds[i], c[i][1], c[i][2], c[i][3])] :
                c \in [1..n -> StoredChoices] } : n \in 1..longest }

(* the submissions to the master pipeline: the USA invoices of the catalogue *)
MasterSubmissions == { d \in InvoiceData : d.region = "USA" }

(* datetime.now() of the call: the stored hour 0, one time window later, and
   one hour more *)
MasterTimes == { 0, master_time_window_hours, master_time_window_hours + 1 }

(* the results of steps 1-3 of process_invoice that feed the final decision:
   the routing confidence is a sum of 0.4, 0.3 and 0.3 (lines 213-223), the
   currency confidence 0.0 or 0.9 (lines 279, 302), the vendor result one of
   the three that _vendor_verification_analysis returns *)
GeographicResults ==
    { [confidence |-> c] :
        c \in { 0, (3 * One) \div 10, (6 * One) \div 10, (7 * One) \div 10, One } }

CurrencyResults == { [confidence |-> 0], [confidence |-> (9 * One) \div 10] }

VendorResults ==
    { [legitimacy_status |-> "UNKNOWN", risk_level |-> "MEDIUM"],
      [legitimacy_status |-> "LEGITIMATE", risk_level |-> "LOW"],
      [legitimacy_status |-> "FRAUDULENT", risk_level |-> "CRITICAL"] }

(* databases of one record written by an earlier call at hour 0 *)
DecisionDatabases ==
    { << stored_record("R1", region, content_fingerprint, "isoformat") >> :
        region \in {"Germany", "USA"}, content_fingerprint \in StoredFingerprints }

InitPure ==
    /\ InitProgram
    /\ \/ \E a \in Fingerprints, b \in Fingerprints :
              pure = [kind |-> "pair", invoice1 |-> InvoiceOf(a),
                      invoice2 |-> InvoiceOf(b), done |-> FALSE,
                      result |-> FALSE]
       \/ \E entries \in MatchLists :
              pure = [kind |-> "matches", entries |-> entries, done |-> FALSE,
                      result |-> 0]
       \/ \E a \in DetailFingerprints, b \in DetailFingerprints :
              pure = [kind |-> "detail", invoice1 |-> DetailInvoice("Germany", a),
                      invoice2 |-> DetailInvoice("USA", b), done |-> FALSE,
                      result |-> EmptyComparison]
       \/ \E a \in MoneyInvoices, b \in MoneyInvoices :
              pure = [kind |-> "money", invoice1 |-> a, invoice2 |-> b,
                      done |-> FALSE,
                      result |-> [amount1_usd |-> 0, amount2_usd |-> 0,
                                  suspicious |-> FALSE]]
       \/ \E text \in Texts, module \in {"detector", "master"} :
              pure = [kind |-> "text", module |-> module, text |-> text,
                      done |-> FALSE, result |-> [once |-> <<>>, twice |-> <<>>]]
       \/ \E database \in StoredDatabases(MaxStored), invoice_data \in MasterSubmissions,
             current_time \in MasterTimes :
              pure = [kind |-> "master", database |-> database,
                      invoice_data |-> invoice_data,
                      current_time |-> current_time, done |-> FALSE,
                      result |-> [raised |-> FALSE]]
       \/ \E database \in DecisionDatabases, invoice_data \in MasterSubmissions,
             current_time \in MasterTimes, geographic_result \in GeographicResults,
             currency_result \in CurrencyResults, vendor_result \in VendorResults :
              pure = [kind |-> "decision", database |-> database,
                      invoice_data |-> invoice_data,
                      current_time |-> current_time,
                      geographic_result |-> geographic_result,
                      currency_result |-> currency_result,
                      vendor_result |-> vendor_result, done |-> FALSE,
                      result |-> [fraud_result |-> "None",
                                  final_decision |-> "None"]]
       \/ \E text \in RawTexts, seed1 \in HashSeeds, seed2 \in HashSeeds :
              pure = [kind |-> "extract", text |-> text, hash_seed1 |-> seed1,
                      hash_seed2 |-> seed2, done |-> FALSE,
                      result |-> [first |-> "None", second |-> "None"]]

ApplyQuickSimilarityCheck ==
    /\ pure.kind = "pair"
    /\ ~pure.done
    /\ pure' = [pure EXCEPT
                   !.done = TRUE,
                   !.result = quick_similarity_check(pure.invoice1, pure.invoice2)]
    /\ UNCHANGED programVars

ApplyCalculateFraudConfidence ==
    /\ pure.kind = "matches"
    /\ ~pure.done
    /\ pure' = [pure EXCEPT
                   !.done = TRUE,
                   !.result = calculate_fraud_confidence(
                                  evidence_of(pure.entries, EmptyEvidence))]
    /\ UNCHANGED programVars

ApplyCompareInvoicesDetailed ==
    /\ pure.kind = "detail"
    /\ ~pure.done
    /\ pure' = [pure EXCEPT
                   !.done = TRUE,
                   !.result = compare_invoices_detailed(pure.invoice1, pure.invoice2)]
    /\ UNCHANGED programVars

ApplyAnalyzeCurrencyRelationship ==
    /\ pure.kind = "money"
    /\ ~pure.done
    /\ pure' = [pure EXCEPT
                   !.done = TRUE,
                   !.result = analyze_currency_relationship(pure.invoice1,
                                                            pure.invoice2)]
    /\ UNCHANGED programVars

(* the normalizer applied to a text, and applied again to its own output *)
normalized_twice(once, twice) == [once |-> once, twice |-> twice]

ApplyNormalizeContentForComparison ==
    /\ pure.kind = "text"
    /\ pure.module = "detector"
    /\ ~pure.done
    /\ pure' = [pure EXCEPT
                   !.done = TRUE,
                   !.result = normalized_twice(
                       normalize_content_for_comparison(TextOf(pure.text)),
                       normalize_content_for_comparison(
                           TextOf(normalize_content_for_comparison(
                                      TextOf(pure.text)))))]
    /\ UNCHANGED programVars

ApplyCreateContentFingerprint ==
    /\ pure.kind = "text"
    /\ pure.module = "master"
    /\ ~pure.done
    /\ pure' = [pure EXCEPT
                   !.done = TRUE,
                   !.result = normalized_twice(
                       create_content_fingerprint(TextOf(pure.text)),
                       create_content_fingerprint(
                           TextOf(create_content_fingerprint(TextOf(pure.text)))))]
    /\ UNCHANGED programVars

(* _generate_content_fingerprint applied to one raw text twice: by a process
   with hash seed hash_seed1 and by a process with hash seed hash_seed2 (the
   same process when the seeds are equal) *)
extracted_twice(first, second) == [first |-> first, second |-> second]

ApplyGenerateContentFingerprint ==
    /\ pure.kind = "extract"
    /\ ~pure.done
    /\ pure' = [pure EXCEPT
                   !.done = TRUE,
                   !.result = extracted_twice(
                       InvoiceFingerprint(pure.text, pure.hash_seed1),
                       InvoiceFingerprint(pure.text, pure.hash_seed2))]
    /\ UNCHANGED programVars

(* the outcome of one _multi_regional_fraud_analysis call on a loaded
   database: the exception, or the result and the database after line 423 *)
analysis_outcome(database, invoice_data, current_time) ==
    IF analysis_raises(database, invoice_data.region)
    THEN [raised |-> TRUE]
    ELSE [raised       |-> FALSE,
          fraud_result |->
              multi_regional_fraud_analysis(database, invoice_data, current_time),
          database     |->
              master_database_after(
                  database,
                  master_record(invoice_data,
                                currency_standardization_usd(invoice_data),
                                current_time))]

ApplyMultiRegionalFraudAnalysis ==
    /\ pure.kind = "master"
    /\ ~pure.done
    /\ pure' = [pure EXCEPT
                   !.done = TRUE,
                   !.result = analysis_outcome(pure.database, pure.invoice_data,
                                               pure.current_time)]
    /\ UNCHANGED programVars

(* steps 4 and 5 of process_invoice: the fraud analysis and the final
   decision taken on its result *)
decided(geographic_result, currency_result, vendor_result, fraud_result) ==
    [fraud_result   |-> fraud_result,
     final_decision |-> make_final_decision(geographic_result, currency_result,
                                            vendor_result, fraud_result)]

ApplyMakeFinalDecision ==
    /\ pure.kind = "decision"
    /\ ~pure.done
    /\ pure' = [pure EXCEPT
                   !.done = TRUE,
                   !.result = decided(
                       pure.geographic_result, pure.currency_result,
                       pure.vendor_result,
                       multi_regional_fraud_analysis(
                           pure.database, pure.invoice_data, pure.current_time))]
    /\ UNCHANGED programVars

NextPure ==
    \/ ApplyQuickSimilarityCheck
    \/ ApplyCalculateFraudConfidence
    \/ ApplyCompareInvoicesDetailed
    \/ ApplyAnalyzeCurrencyRelationship
    \/ ApplyNormalizeContentForComparison
    \/ ApplyCreateContentFingerprint
    \/ ApplyGenerateContentFingerprint
    \/ ApplyMultiRegionalFraudAnalysis
    \/ ApplyMakeFinalDecision

SpecPure == InitPure /\ [][NextPure]_vars

(***************************************************************************)
(* Properties                                                              *)
(***************************************************************************)
(* a step of the detector: a call returned, or the registry changed *)
DetectorStep == detectorVars' # detectorVars

(* the hours between two invoices' submission timestamps *)
Gap(invoice1, invoice2) ==
    Abs(invoice1.submission_timestamp - invoice2.submission_timestamp)

(* C1: every call of detect_multi_regional_fraud returns a FraudAlert if and
   only if the aggregated confidence is strictly greater than 0.75; when the
   confidence is at most 0.75 no alert is returned and the submitted invoice
   is appended to the registry exactly once. *)
C1_AlertIffAboveThreshold ==
    [][DetectorStep =>
          /\ lastResult'.kind = "alert" <=>
                 lastResult'.confidence_score > (75 * One) \div 100
          /\ lastResult'.kind = "alert" <=> lastResult'.alert # NoAlert
          /\ lastResult'.confidence_score <= (75 * One) \div 100 =>
                 /\ lastResult'.kind = "none"
                 /\ cross_regional_database' =
                        Append(cross_regional_database, lastResult'.current_invoice)
      ]_vars

(* an alert was returned although the registry holds invoices, each of which
   was admitted by an earlier call that returned no alert *)
C1_Witness ==
    /\ lastResult.kind = "alert"
    /\ lastResult.confidence_score > (75 * One) \div 100
    /\ Len(cross_regional_database) >= 2

(* C2: the registry is append-only in both modules: the registry before any
   step is a prefix of the registry after it, so every earlier entry stays in
   place and unchanged. *)
C2_RegistryAppendOnly ==
    [][/\ IsPrefix(cross_regional_database, cross_regional_database')
       /\ IsPrefix(master_database, master_database')]_vars

(* both registries have grown by several submissions *)
C2_Witness ==
    /\ Len(cross_regional_database) >= 2
    /\ Len(master_database) >= 1
    /\ cross_regional_database[1] # cross_regional_database[2]

(* the positions of the registry whose invoice is within the window of the
   reference invoice (boundary included) and in another region *)
InWindowOtherRegion(reference, database) ==
    {i \in 1..Len(database) :
        /\ Gap(reference, database[i]) <= time_window_hours
        /\ database[i].region # reference.region}

(* s is the sub-sequence of database at exactly the positions in keep *)
RECURSIVE IsSelection(_, _, _, _)
IsSelection(s, database, keep, i) ==
    IF i > Len(database) THEN s = <<>>
    ELSE IF i \in keep
         THEN s # <<>> /\ Head(s) = database[i]
              /\ IsSelection(Tail(s), database, keep, i + 1)
         ELSE IsSelection(s, database, keep, i + 1)

(* C3: for every reference invoice, the candidate lookup returns all stored
   invoices submitted at most 72 hours from the reference and in another
   region, and no invoice of the same region or further away. *)
C3_CandidateLookup ==
    \A invoice_data \in InvoiceData :
        IsSelection(
            candidatesWithin(create_regional_invoice(invoice_data, now),
                             cross_regional_database),
            cross_regional_database,
            InWindowOtherRegion(create_regional_invoice(invoice_data, now),
                                cross_regional_database),
            1)

(* the last call found a candidate exactly 72 hours away, while the registry
   also held an invoice further away and one of the caller's own region *)
C3_Witness ==
    /\ lastResult.kind # "init"
    /\ \E i \in 1..Len(lastResult.potential_duplicates) :
           Gap(lastResult.current_invoice, lastResult.potential_duplicates[i])
               = time_window_hours
    /\ \E i \in 1..Len(cross_regional_database) :
           Gap(lastResult.current_invoice, cross_regional_database[i])
               > time_window_hours
    /\ \E i \in 1..Len(cross_regional_database) :
           /\ cross_regional_database[i].region = lastResult.current_invoice.region
           /\ cross_regional_database[i] # lastResult.current_invoice

(* x and y are duplicates of each other that the detector reports whichever
   of the two is submitted second *)
DetectedAsDuplicate(current_invoice, existing_invoice) ==
    /\ current_invoice.region # existing_invoice.region
    /\ Gap(current_invoice, existing_invoice) <= time_window_hours
    /\ quick_similarity_check(current_invoice, existing_invoice)
    /\ overall_similarity(matching_elements(current_invoice, existing_invoice))
           > (85 * One) \div 100

MutualDuplicates(x, y) == DetectedAsDuplicate(x, y) /\ DetectedAsDuplicate(y, x)

(* C4: with concurrent calls on one detector, it never happens that two
   mutually duplicate invoices from different regions are both admitted to
   the registry (no alert having been raised for either). *)
C4_NoDuplicatePairAdmitted ==
    \A i \in 1..Len(cross_regional_database) :
        \A j \in 1..Len(cross_regional_database) :
            i < j => ~MutualDuplicates(cross_regional_database[i],
                                       cross_regional_database[j])

(* C5: the confidence aggregator returns a value in [0, 0.99] for every
   non-empty match set and exactly 0 for an empty one. *)
C5_ConfidenceRange ==
    (pure.kind = "matches" /\ pure.done) =>
        IF pure.entries = <<>> THEN pure.result = 0
        ELSE pure.result >= 0 /\ pure.result <= (99 * One) \div 100

(* two matches whose boosted similarity exceeds 1.0: the result is 0.99 *)
C5_Witness ==
    /\ pure.kind = "matches"
    /\ pure.done
    /\ Len(pure.entries) = 2
    /\ pure.entries[1].overall_similarity = (13 * One) \div 10
    /\ pure.entries[1].invoice_id # pure.entries[2].invoice_id
    /\ pure.entries[2].currency_analysis.suspicious
    /\ pure.result = (99 * One) \div 100

(* the largest overall similarity among the matches of the last call *)
MaxMatchSimilarity(current_invoice, matches) ==
    CHOOSE v \in {overall_similarity(matching_elements(current_invoice, matches[i])) :
                     i \in 1..Len(matches)} :
        \A i \in 1..Len(matches) :
            overall_similarity(matching_elements(current_invoice, matches[i])) <= v

SuspiciousMatches(current_invoice, matches) ==
    {i \in 1..Len(matches) :
        analyze_currency_relationship(current_invoice, matches[i]).suspicious}

InWindowMatches(current_invoice, matches) ==
    {i \in 1..Len(matches) : Gap(current_invoice, matches[i]) < time_window_hours}

(* maxSimilarity * min(1.5, 1.0 + 0.2*(n-1)) + 0.10*suspicious + 0.05*inWindow,
   in tenths of the fixed-point unit *)
ExpectedConfidence10(current_invoice, matches) ==
    MaxMatchSimilarity(current_invoice, matches)
        * Min(15, 10 + 2 * (Len(matches) - 1))
    + One * Cardinality(SuspiciousMatches(current_invoice, matches))
    + (One \div 2) * Cardinality(InWindowMatches(current_invoice, matches))

(* C6: for a non-empty match set of n matches the aggregated confidence is
   min(0.99, maxSimilarity * min(1.5, 1.0 + 0.2*(n-1)) + 0.10 * (number of
   matches flagged suspicious) + 0.05 * (number of matches within the fraud
   time window)). *)
C6_ConfidenceFormula ==
    (lastResult.kind # "init" /\ lastResult.fraud_evidence.matches # <<>>) =>
        10 * lastResult.confidence_score =
            Min(10 * ((99 * One) \div 100),
                ExpectedConfidence10(lastResult.current_invoice,
                                     lastResult.fraud_evidence.matches))

(* one match and a confidence below the cap that includes the 0.05 boost *)
C6_Witness ==
    /\ lastResult.kind = "alert"
    /\ Len(lastResult.fraud_evidence.matches) = 1
    /\ lastResult.confidence_score < (99 * One) \div 100
    /\ lastResult.confidence_score =
           MaxMatchSimilarity(lastResult.current_invoice,
                              lastResult.fraud_evidence.matches) + One \div 20

(* C7: two invoices whose fingerprints carry the same non-empty
   purchase-order reference, compared case-insensitively, pass the
   pre-filter whatever their vendor names and delivery addresses are. *)
C7_SamePoPassesPrefilter ==
    (/\ pure.kind = "pair"
     /\ pure.done
     /\ pure.invoice1.fingerprint.po_reference # <<>>
     /\ Lower(pure.invoice1.fingerprint.po_reference)
            = Lower(pure.invoice2.fingerprint.po_reference))
        => pure.result = TRUE

(* references that differ in case only, unlike vendors, unrelated addresses *)
C7_Witness ==
    /\ pure.kind = "pair"
    /\ pure.done
    /\ pure.invoice1.fingerprint.po_reference = <<"p", "1">>
    /\ pure.invoice2.fingerprint.po_reference = <<"P", "1">>
    /\ pure.invoice1.fingerprint.vendor_name = <<"m", "s">>
    /\ pure.invoice2.fingerprint.vendor_name = <<"o", "r">>
    /\ pure.invoice1.fingerprint.delivery_address = <<"a", "b">>
    /\ pure.invoice2.fingerprint.delivery_address = <<"c", "b">>
    /\ pure.result = TRUE

(* C8: the pre-filter returns true whenever either invoice's non-empty
   delivery address is a case-insensitive substring of the other's, in both
   directions. *)
C8_AddressEitherDirection ==
    (/\ pure.kind = "pair"
     /\ pure.done
     /\ pure.invoice1.fingerprint.delivery_address # <<>>
     /\ pure.invoice2.fingerprint.delivery_address # <<>>
     /\ \/ Contains(Lower(pure.invoice2.fingerprint.delivery_address),
                    Lower(pure.invoice1.fingerprint.delivery_address))
        \/ Contains(Lower(pure.invoice1.fingerprint.delivery_address),
                    Lower(pure.invoice2.fingerprint.delivery_address)))
        => pure.result = TRUE

(* C9: the candidate search and the aggregator's time-window test treat a
   stored invoice the same way, also exactly 72 hours from the submitted
   invoice: it is inside the search window if and only if its time gap counts
   as within the fraud time window. *)
C9_ConsistentBoundary ==
    lastResult.kind # "init" =>
        \A i \in 1..Len(cross_regional_database) :
            ~outside_time_window(lastResult.current_invoice,
                                 cross_regional_database[i])
            <=> analyze_submission_timing(lastResult.current_invoice,
                                          cross_regional_database[i]).suspicious_timing

(* C10: the potentialLoss of every alert is the USD sum of the amounts of
   exactly the matched duplicates; a candidate that passed the pre-filter
   without exceeding the pairwise threshold contributes nothing. *)
C10_LossOfMatchesOnly ==
    lastResult.kind = "alert" =>
        lastResult.alert.potential_loss =
            round2(duplicate_usd(lastResult.fraud_evidence.matches))

(* the regions of a list of invoices *)
RegionsOf(invoices) == {invoices[i].region : i \in 1..Len(invoices)}

(* C11: the invoices listed in every alert are the submitted invoice plus
   exactly the matched duplicates (overall similarity above the pairwise
   threshold), and affected_regions is exactly the set of regions of those
   listed invoices; a pre-filter candidate below the threshold appears in
   neither. *)
C11_AlertListsMatchesOnly ==
    lastResult.kind = "alert" =>
        /\ lastResult.alert.duplicate_invoices =
               <<lastResult.current_invoice>> \o lastResult.fraud_evidence.matches
        /\ lastResult.alert.affected_regions =
               RegionsOf(<<lastResult.current_invoice>>
                         \o lastResult.fraud_evidence.matches)

(* the registry as it was when the last call searched it: a call that
   returned no alert appended its invoice at the end *)
DatabaseBefore ==
    IF lastResult.kind = "none"
    THEN SubSeq(cross_regional_database, 1, Len(cross_regional_database) - 1)
    ELSE cross_regional_database

(* scenario A: the German invoice I1 (EUR 500) was submitted to an empty
   registry and stored; the last call submitted the matching USA invoice I2
   (USD 550, same purchase order) less than a time window later *)
ScenarioA ==
    /\ lastResult.kind # "init"
    /\ lastResult.current_invoice.invoice_id = "I2"
    /\ lastResult.current_invoice.region = "USA"
    /\ Len(DatabaseBefore) = 1
    /\ DatabaseBefore[1].invoice_id = "I1"
    /\ DatabaseBefore[1].region = "Germany"
    /\ Gap(lastResult.current_invoice, DatabaseBefore[1]) < time_window_hours

(* C12: scenario A returns a FraudAlert whose affected_regions is
   {Germany, USA} and whose potential_loss equals the USD-converted amount of
   the submitted USA invoice. *)
C12_ScenarioA ==
    ScenarioA =>
        /\ lastResult.kind = "alert"
        /\ lastResult.alert.affected_regions = {"Germany", "USA"}
        /\ lastResult.alert.potential_loss =
               round2(to_usd(lastResult.current_invoice))

(* neither of the two invoices has a purchase-order reference, vendor name
   or delivery address that lets it pass the pre-filter against the other *)
Unrelated(invoice1, invoice2) ==
    /\ ~po_reference_match(invoice1.fingerprint, invoice2.fingerprint)
    /\ ~vendor_name_match(invoice1.fingerprint, invoice2.fingerprint)
    /\ ~delivery_address_match(invoice1.fingerprint, invoice2.fingerprint)
    /\ ~delivery_address_match(invoice2.fingerprint, invoice1.fingerprint)

(* scenario B: the registry held one invoice when the last call submitted an
   unrelated invoice from another region within the time window *)
ScenarioB ==
    /\ lastResult.kind # "init"
    /\ Len(DatabaseBefore) = 1
    /\ DatabaseBefore[1].region # lastResult.current_invoice.region
    /\ Gap(lastResult.current_invoice, DatabaseBefore[1]) <= time_window_hours
    /\ Unrelated(lastResult.current_invoice, DatabaseBefore[1])

(* C13: scenario B: two invoices from different regions with unrelated
   purchase orders, vendors and addresses, submitted within the time window:
   neither submission returns an alert and afterwards both invoices are in
   the registry. *)
C13_ScenarioB ==
    ScenarioB =>
        /\ lastResult.kind = "none"
        /\ lastResult.alert = NoAlert
        /\ cross_regional_database =
               <<DatabaseBefore[1], lastResult.current_invoice>>

(* the two invoices have non-empty, different purchase orders, vendors and
   addresses, and the same items and text: only the pre-filter keeps the
   detailed comparison from reporting them *)
C13_Witness ==
    /\ ScenarioB
    /\ lastResult.kind = "none"
    /\ Len(cross_regional_database) = 2
    /\ lastResult.current_invoice.fingerprint.po_reference # <<>>
    /\ cross_regional_database[1].fingerprint.po_reference # <<>>
    /\ lastResult.current_invoice.fingerprint.delivery_address # <<>>
    /\ cross_regional_database[1].fingerprint.delivery_address # <<>>
    /\ overall_similarity(matching_elements(lastResult.current_invoice,
                                            cross_regional_database[1]))
           > (85 * One) \div 100

(* scenario C: every stored invoice of another region was submitted more
   than a time window away from the invoice of the last call *)
ScenarioC ==
    /\ lastResult.kind # "init"
    /\ \A i \in 1..Len(DatabaseBefore) :
           DatabaseBefore[i].region # lastResult.current_invoice.region =>
               Gap(lastResult.current_invoice, DatabaseBefore[i])
                   > time_window_hours

(* C14: scenario C: when every stored invoice from another region was
   submitted more than the 72-hour window away from the submitted invoice,
   the submission returns no alert and is stored, even if the invoices match
   in content. *)
C14_ScenarioC ==
    ScenarioC =>
        /\ lastResult.kind = "none"
        /\ lastResult.alert = NoAlert
        /\ cross_regional_database =
               Append(DatabaseBefore, lastResult.current_invoice)

(* the registry held a duplicate of the submitted invoice from another
   region, 108 hours old: it passes the pre-filter and its detailed
   similarity is above the threshold *)
C14_Witness ==
    /\ ScenarioC
    /\ lastResult.kind = "none"
    /\ \E i \in 1..Len(DatabaseBefore) :
           /\ DatabaseBefore[i].region # lastResult.current_invoice.region
           /\ Gap(lastResult.current_invoice, DatabaseBefore[i]) = 108
           /\ quick_similarity_check(lastResult.current_invoice, DatabaseBefore[i])
           /\ overall_similarity(matching_elements(lastResult.current_invoice,
                                                   DatabaseBefore[i]))
                  > (85 * One) \div 100

(* C15: every submitted invoice is in exactly one terminal state when
   detect_multi_regional_fraud returns: its processing_status is stored if it
   was appended to the registry and flagged if it was returned in an alert;
   no invoice is left pending. *)
C15_TerminalStatus ==
    /\ \A i \in 1..Len(cross_regional_database) :
           cross_regional_database[i].processing_status = "stored"
    /\ lastResult.kind = "alert" =>
           lastResult.alert.duplicate_invoices[1].processing_status = "flagged"
    /\ lastResult.kind # "init" =>
           lastResult.current_invoice.processing_status # "pending"

(* the tier the claim assigns to a confidence *)
ExpectedAction(c) ==
    CASE c > (90 * One) \div 100 -> "IMMEDIATE ACTION"
      [] c <= (90 * One) \div 100 /\ c > (85 * One) \div 100 -> "HIGH PRIORITY"
      [] c <= (85 * One) \div 100 /\ c > (75 * One) \div 100 -> "ENHANCED REVIEW"
      [] OTHER -> "MONITOR"

(* confidences at and next to every tier limit *)
TierSamples ==
    { 0, (75 * One) \div 100, (75 * One) \div 100 + 1, (80 * One) \div 100,
      (85 * One) \div 100, (85 * One) \div 100 + 1, (90 * One) \div 100,
      (90 * One) \div 100 + 1, (99 * One) \div 100 }

(* C16: the recommended action of an alert is tiered by its confidence
   (> 0.90 immediate action, else > 0.85 high priority, else > 0.75 enhanced
   review, else monitor-only), and no alert returned by
   detect_multi_regional_fraud carries the monitor-only action. *)
C16_ActionTiers ==
    /\ \A c \in TierSamples : generate_action_recommendation(c) = ExpectedAction(c)
    /\ lastResult.kind = "alert" =>
           /\ lastResult.alert.recommended_action =
                  ExpectedAction(lastResult.alert.confidence_score)
           /\ lastResult.alert.recommended_action # "MONITOR"

(* an alert of the lowest tier that occurs: one match of similarity 0.875
   and no booster, high priority *)
C16_Witness ==
    /\ lastResult.kind = "alert"
    /\ lastResult.alert.confidence_score > (85 * One) \div 100
    /\ lastResult.alert.confidence_score <= (90 * One) \div 100
    /\ lastResult.alert.recommended_action = "HIGH PRIORITY"

(* C17: every invoice submitted to the detector is recorded in the registry
   regardless of the alert outcome: after a call that returns a FraudAlert
   the flagged invoice is in the registry too. *)
C17_EveryInvoiceRecorded ==
    lastResult.kind # "init" =>
        \E i \in 1..Len(cross_regional_database) :
            cross_regional_database[i] = lastResult.current_invoice

(* the components of a detailed comparison, as a set *)
ComponentsOf(elements) ==
    { elements.content_similarity, elements.po_reference_match,
      elements.address_similarity, elements.line_items_similarity }

(* C18: the overall similarity of the detailed comparison is the
   un-normalized weighted sum 0.30*content + 0.30*po match + 0.25*address
   similarity + 0.45*line-item similarity of four components each in [0, 1]
   (the po match being exactly 0 or 1), so it lies in [0, 1.30] and is 1.30
   when all four components are 1. *)
C18_OverallSimilarity ==
    (pure.kind = "detail" /\ pure.done) =>
        /\ \A c \in ComponentsOf(pure.result.matching_elements) :
               c >= 0 /\ c <= One
        /\ pure.result.matching_elements.po_reference_match \in {0, One}
        /\ 100 * pure.result.overall_similarity =
               30 * pure.result.matching_elements.content_similarity
               + 30 * pure.result.matching_elements.po_reference_match
               + 25 * pure.result.matching_elements.address_similarity
               + 45 * pure.result.matching_elements.line_items_similarity
        /\ pure.result.overall_similarity >= 0
        /\ 10 * pure.result.overall_similarity <= 13 * One
        /\ ComponentsOf(pure.result.matching_elements) = {One} =>
               10 * pure.result.overall_similarity = 13 * One

(* two invoices with the same text, purchase order, address and item: all
   four components are 1 and the overall similarity is 1.30 *)
C18_Witness ==
    /\ pure.kind = "detail"
    /\ pure.done
    /\ pure.invoice1.fingerprint.line_items # <<>>
    /\ pure.invoice1.fingerprint.normalized_content # <<>>
    /\ ComponentsOf(pure.result.matching_elements) = {One}
    /\ 10 * pure.result.overall_similarity = 13 * One

(* the rate the claim gives a currency, in 1/10000 USD: the static table,
   and 1.0 for a currency that is not in it *)
ClaimRate(currency) ==
    IF currency = "GBP" THEN 12800
    ELSE IF currency = "EUR" THEN 11800
    ELSE 10000

ClaimUsd(invoice) == invoice.total_amount * ClaimRate(invoice.currency)

(* variance < 0.10, where variance is |a - b| / a for a > 0 and 1.0 otherwise *)
ClaimSuspicious(a, b) == IF a > 0 THEN 10 * Abs(a - b) < a ELSE FALSE

(* C19: the currency analysis of invoices a (submitted) and b converts both
   amounts to USD with the static rate table (rate 1.0 for an unknown
   currency), computes variance = |a - b| / a when a > 0 and the fixed value
   1.0 when a <= 0 (also when both amounts are 0), and flags the pair
   suspicious if and only if the variance is strictly less than 0.10. *)
C19_CurrencyAnalysis ==
    (pure.kind = "money" /\ pure.done) =>
        /\ pure.result.amount1_usd = ClaimUsd(pure.invoice1)
        /\ pure.result.amount2_usd = ClaimUsd(pure.invoice2)
        /\ pure.result.suspicious <=>
               ClaimSuspicious(ClaimUsd(pure.invoice1), ClaimUsd(pure.invoice2))

(* both amounts are 0, in a currency that is not in the rate table: the
   analysis returns, and the pair is not flagged *)
C19_Witness ==
    /\ pure.kind = "money"
    /\ pure.done
    /\ pure.invoice1.currency = "XXX"
    /\ pure.invoice1.total_amount = 0
    /\ pure.invoice2.total_amount = 0
    /\ pure.result.amount1_usd = 0
    /\ pure.result.suspicious = FALSE

(* C20: content normalization is idempotent: for every input text x,
   normalize(normalize(x)) equals normalize(x), both for the detector's
   _normalize_content_for_comparison and for the master pipeline's
   _create_content_fingerprint. *)
C20_NormalizeIdempotent ==
    (pure.kind = "text" /\ pure.done) => pure.result.twice = pure.result.once

(* C21: fingerprint extraction is deterministic: two extractions of the same
   raw text yield fingerprints equal in every field (content hash, vendor
   name, line items, amounts, purchase-order reference, delivery address,
   normalized content, and the keyword sequence including its order). *)
C21_ExtractionDeterministic ==
    (pure.kind = "extract" /\ pure.done) => pure.result.first = pure.result.second


(* the stored record has no timestamp, or one that cannot be parsed *)
TimestampUnusable(existing_invoice) ==
    \/ "timestamp" \notin DOMAIN existing_invoice
    \/ existing_invoice.timestamp = UnparsableTimestamp

(* every timestamp of the database is absent, a str or a datetime *)
TimestampsTyped(database) ==
    \A i \in 1..Len(database) :
        "timestamp" \in DOMAIN database[i] =>
            database[i].timestamp.type \in {"str", "datetime"}

(* the entries of potential_duplicates that report the stored record *)
ReportsOf(existing_invoice, potential_duplicates) ==
    {j \in 1..Len(potential_duplicates) :
        potential_duplicates[j].invoice_id = existing_invoice.invoice_id}

(* C22: in the master pipeline, a stored record whose timestamp is missing
   or cannot be parsed never aborts processing: its timestamp falls back to
   the current time, so its time gap is 0 and it is treated as inside the
   time window (it is reported whenever it is of another region and similar
   enough, however late the call is). *)
C22_TimestampFallback ==
    (pure.kind = "master" /\ pure.done /\ TimestampsTyped(pure.database)) =>
        /\ ~pure.result.raised
        /\ \A i \in 1..Len(pure.database) :
               (/\ TimestampUnusable(pure.database[i])
                /\ pure.database[i].region # pure.invoice_data.region
                /\ ratio(create_content_fingerprint(pure.invoice_data.invoice_text),
                         pure.database[i].content_fingerprint)
                       > (85 * One) \div 100)
               => /\ ReportsOf(pure.database[i],
                               pure.result.fraud_result.potential_duplicates) # {}
                  /\ \A j \in ReportsOf(pure.database[i],
                                        pure.result.fraud_result.potential_duplicates) :
                         pure.result.fraud_result.potential_duplicates[j]
                             .time_diff_hours = 0

(* a call 73 hours after hour 0: the record stamped hour 0 is outside the
   window, while its twin with the unparsable timestamp is reported with a
   gap of 0 *)
C22_Witness ==
    /\ pure.kind = "master"
    /\ pure.done
    /\ pure.current_time = master_time_window_hours + 1
    /\ Len(pure.database) = 2
    /\ pure.database[1].region = "Germany"
    /\ "timestamp" \in DOMAIN pure.database[1]
    /\ pure.database[1].timestamp = isoformat(0)
    /\ pure.database[2] =
           stored_record("R2", "Germany", pure.database[1].content_fingerprint,
                         "unparsable")
    /\ ~pure.result.raised
    /\ Len(pure.result.fraud_result.potential_duplicates) = 1
    /\ pure.result.fraud_result.potential_duplicates[1].invoice_id = "R2"
    /\ pure.result.fraud_result.potential_duplicates[1].time_diff_hours = 0


(* a step of the master pipeline: a process_invoice call *)
MasterStep == masterVars' # masterVars

(* C23: in the master pipeline every process_invoice call appends exactly
   one record to the cross-regional database whether or not fraud was
   detected, so after any sequence of calls the database size equals
   processing_stats.total_invoices_processed. *)
C23_OneRecordPerCall ==
    [][/\ Len(master_database') = processing_stats'.total_invoices_processed
       /\ MasterStep =>
              /\ Len(master_database') = Len(master_database) + 1
              /\ IsPrefix(master_database, master_database')
              /\ master_database'[Len(master_database')].invoice_id =
                     masterResult'.invoice_data.invoice_id
              /\ master_database'[Len(master_database')].region =
                     masterResult'.invoice_data.region
              /\ processing_stats'.total_invoices_processed =
                     processing_stats.total_invoices_processed + 1
      ]_vars

(* the last of three calls reported fraud, and its record was appended *)
C23_Witness ==
    /\ masterResult.kind = "done"
    /\ masterResult.fraud_result.fraud_detected
    /\ Len(master_database) = 3
    /\ processing_stats.total_invoices_processed = 3
    /\ master_database[3].invoice_id = masterResult.invoice_data.invoice_id
    /\ master_database[3].region = masterResult.invoice_data.region


(* every record of the database carries a timestamp the pipeline can read *)
TimestampsReadable(database) ==
    \A i \in 1..Len(database) :
        /\ "timestamp" \in DOMAIN database[i]
        /\ database[i].timestamp \in {isoformat(0), [type |-> "datetime", hour |-> 0]}

(* the hour a readable timestamp stands for *)
StampedHour(existing_invoice) ==
    IF existing_invoice.timestamp.type = "str"
    THEN existing_invoice.timestamp.isoformat
    ELSE existing_invoice.timestamp.hour

(* the positions of the records of another region, at most 72 hours from the
   call, whose fingerprint is more than 0.85 similar to the submitted text *)
Duplicates(database, invoice_data, current_time) ==
    {i \in 1..Len(database) :
        /\ database[i].region # invoice_data.region
        /\ Abs(current_time - StampedHour(database[i])) <= 72
        /\ ratio(create_content_fingerprint(invoice_data.invoice_text),
                 database[i].content_fingerprint) > (85 * One) \div 100}

(* v is the largest similarity of the records at the positions dups *)
IsMaxSimilarity(v, database, invoice_data, dups) ==
    /\ \E i \in dups :
           v = ratio(create_content_fingerprint(invoice_data.invoice_text),
                     database[i].content_fingerprint)
    /\ \A i \in dups :
           v >= ratio(create_content_fingerprint(invoice_data.invoice_text),
                      database[i].content_fingerprint)

(* the sum of usd_amount over the positions dups that are at most n *)
RECURSIVE UsdSum(_, _, _)
UsdSum(database, dups, n) ==
    IF n = 0 THEN 0
    ELSE (IF n \in dups THEN database[n].usd_amount ELSE 0)
         + UsdSum(database, dups, n - 1)

(* C24: in the master pipeline, fraud_detected is true if and only if the
   database holds at least one record from a different region, at most 72
   hours away (boundary included), whose fingerprint similarity to the
   submitted text is strictly above 0.85; in that case confidence is the
   maximum such similarity and potential_loss_usd is the sum of those
   records' usd_amount, and otherwise both are 0. *)
C24_MasterFraudDetected ==
    (pure.kind = "master" /\ pure.done /\ TimestampsReadable(pure.database)) =>
        /\ ~pure.result.raised
        /\ pure.result.fraud_result.fraud_detected <=>
               Duplicates(pure.database, pure.invoice_data, pure.current_time) # {}
        /\ IF Duplicates(pure.database, pure.invoice_data, pure.current_time) # {}
           THEN /\ IsMaxSimilarity(
                       pure.result.fraud_result.confidence, pure.database,
                       pure.invoice_data,
                       Duplicates(pure.database, pure.invoice_data,
                                  pure.current_time))
                /\ pure.result.fraud_result.potential_loss_usd =
                       UsdSum(pure.database,
                              Duplicates(pure.database, pure.invoice_data,
                                         pure.current_time),
                              Len(pure.database))
           ELSE /\ pure.result.fraud_result.confidence = 0
                /\ pure.result.fraud_result.potential_loss_usd = 0

(* a call exactly 72 hours after two records of another region were stamped:
   both are reported, with similarities 6/7 and 1.0; the confidence is 1.0
   and the loss is the sum of both amounts *)
C24_Witness ==
    /\ pure.kind = "master"
    /\ pure.done
    /\ TimestampsReadable(pure.database)
    /\ pure.current_time = 72
    /\ Len(pure.database) = 2
    /\ ~pure.result.raised
    /\ Len(pure.result.fraud_result.potential_duplicates) = 2
    /\ pure.result.fraud_result.potential_duplicates[1].similarity < One
    /\ pure.result.fraud_result.confidence = One
    /\ pure.result.fraud_result.potential_loss_usd = 2 * 5900000


(* the pre-filtered candidates of the last call whose overall similarity to
   the submitted invoice is strictly above 0.85 *)
CandidatesAbove(result) ==
    {i \in 1..Len(result.potential_duplicates) :
        overall_similarity(
            matching_elements(result.current_invoice,
                              result.potential_duplicates[i]))
            > (85 * One) \div 100}

(* C25: in the detector, an alert is returned if and only if at least one
   pre-filtered candidate has overall similarity strictly above the pairwise
   threshold 0.85: any non-empty match set yields an aggregated confidence
   above 0.75, so the 0.75 gate never suppresses an alert for a non-empty
   match set. *)
C25_AlertIffMatch ==
    lastResult.kind # "init" =>
        /\ lastResult.kind = "alert" <=>
               \E i \in 1..Len(lastResult.potential_duplicates) :
                   overall_similarity(
                       matching_elements(lastResult.current_invoice,
                                         lastResult.potential_duplicates[i]))
                       > (85 * One) \div 100
        /\ lastResult.fraud_evidence.matches # <<>> =>
               lastResult.confidence_score > (75 * One) \div 100

(* an alert of the lowest confidence that occurs, 0.875: one of the two
   pre-filtered candidates is a match, and no booster applies *)
C25_Witness ==
    /\ lastResult.kind = "alert"
    /\ Len(lastResult.potential_duplicates) = 2
    /\ Cardinality(CandidatesAbove(lastResult)) = 1
    /\ Len(lastResult.fraud_evidence.matches) = 1
    /\ lastResult.confidence_score = (875 * One) \div 1000


(* every match of the call was submitted less than 72 hours from the
   submitted invoice *)
AllMatchesWithin(result) ==
    \A i \in 1..Len(result.fraud_evidence.matches) :
        Gap(result.current_invoice, result.fraud_evidence.matches[i]) < 72

(* C26: every alert returned by the detector has confidence strictly above
   0.85, so its recommended action is always the immediate-action or the
   high-priority tier and never the enhanced-review tier; moreover, if every
   match's time gap is strictly below 72 hours the confidence is above 0.90
   and the action is the immediate-action tier. *)
C26_AlertTiers ==
    lastResult.kind = "alert" =>
        /\ lastResult.alert.confidence_score > (85 * One) \div 100
        /\ lastResult.alert.recommended_action
               \in {"IMMEDIATE ACTION", "HIGH PRIORITY"}
        /\ AllMatchesWithin(lastResult) =>
               /\ lastResult.alert.confidence_score > (90 * One) \div 100
               /\ lastResult.alert.recommended_action = "IMMEDIATE ACTION"

(* one match of similarity 0.875, 36 hours away and of an unrelated amount:
   the timing booster alone lifts the confidence to 0.925 *)
C26_Witness ==
    /\ lastResult.kind = "alert"
    /\ Len(lastResult.fraud_evidence.matches) = 1
    /\ Gap(lastResult.current_invoice, lastResult.fraud_evidence.matches[1]) = 36
    /\ suspicious_ids(lastResult.fraud_evidence) = {}
    /\ lastResult.alert.confidence_score = (925 * One) \div 1000
    /\ lastResult.alert.recommended_action = "IMMEDIATE ACTION"


(* line 513: the regions of the listed invoices, before list(set(...)) *)
RegionList(alert) ==
    [i \in 1..Len(alert.duplicate_invoices) |-> alert.duplicate_invoices[i].region]

(* two orders in which a set of region names can be iterated *)
RegionOrders == { <<"Germany", "USA", "UK">>, <<"UK", "USA", "Germany">> }

ElementsOf(list) == {list[i] : i \in 1..Len(list)}

NoRepeats(list) ==
    \A i \in 1..Len(list) : \A j \in 1..Len(list) : list[i] = list[j] => i = j

(* list names every region of regions exactly once *)
ListsOnce(list, regions) == NoRepeats(list) /\ ElementsOf(list) = regions

(* C27: every alert returned by the detector has an affected_regions list
   without repeated entries that contains the submitted invoice's region and
   at least one other region, and every invoice listed in the alert other
   than the submitted one lies in a region different from the submitted
   invoice's. *)
C27_AffectedRegions ==
    lastResult.kind = "alert" =>
        /\ \A order \in RegionOrders :
               ListsOnce(list_of_set(RegionList(lastResult.alert), order),
                         lastResult.alert.affected_regions)
        /\ lastResult.current_invoice.region \in lastResult.alert.affected_regions
        /\ \E region \in lastResult.alert.affected_regions :
               region # lastResult.current_invoice.region
        /\ lastResult.alert.duplicate_invoices[1] = lastResult.current_invoice
        /\ \A i \in 2..Len(lastResult.alert.duplicate_invoices) :
               lastResult.alert.duplicate_invoices[i].region
                   # lastResult.current_invoice.region

(* the alert lists two stored invoices of one region, so the list of line
   513 names that region twice, and affected_regions names it once *)
C27_Witness ==
    /\ lastResult.kind = "alert"
    /\ Len(lastResult.alert.duplicate_invoices) = 3
    /\ lastResult.alert.duplicate_invoices[2].region
           = lastResult.alert.duplicate_invoices[3].region
    /\ Cardinality(lastResult.alert.affected_regions) = 2


(* C28: in the master pipeline, whenever the fraud analysis reports
   fraud_detected the final recommendation is the 'BLOCK - High fraud risk
   detected' outcome, whatever the geographic, currency and vendor results
   are, because a detected fraud always carries confidence above 0.85; and
   the final overall confidence always lies in [0.1, 0.99]. *)
C28_FraudBlocks ==
    (pure.kind = "decision" /\ pure.done) =>
        /\ pure.result.fraud_result.fraud_detected =>
               /\ pure.result.fraud_result.confidence > (85 * One) \div 100
               /\ pure.result.final_decision.recommendation =
                      "BLOCK - High fraud risk detected"
        /\ pure.result.final_decision.confidence >= One \div 10
        /\ pure.result.final_decision.confidence <= (99 * One) \div 100

(* a fraud of confidence 6/7 on an invoice of a fraudulent vendor that was
   routed with confidence: the weights sum to 0.1, and the fraud outcome
   comes before the vendor outcome *)
C28_Witness ==
    /\ pure.kind = "decision"
    /\ pure.done
    /\ pure.result.fraud_result.fraud_detected
    /\ pure.result.fraud_result.confidence < (9 * One) \div 10
    /\ pure.vendor_result.legitimacy_status = "FRAUDULENT"
    /\ pure.geographic_result.confidence = One
    /\ pure.result.final_decision.confidence = One \div 10
    /\ pure.result.final_decision.recommendation = "BLOCK - High fraud risk detected"

=============================================================================
